---- MODULE Spec2Model ----
(***************************************************************************)
(* Model of compress.py: a one-shot batch tool that walks the directory    *)
(* tree under SRC_DIR and writes, for every supported image, a width-      *)
(* capped hi-res JPEG, a thumbnail JPEG and an optional WebP copy into a   *)
(* mirrored tree under OUT_DIR.                                            *)
(*                                                                         *)
(* Three specifications share the module:                                  *)
(*   Spec        main() walking a set of files, process_one step by step   *)
(*   FairSpec    Spec, with the steps of the sequential program taken      *)
(*   SpecResize  resize_by_width applied to sizes drawn from bounded sets  *)
(***************************************************************************)
EXTENDS Integers, Sequences, FiniteSets, TLC

(***************************************************************************)
(* Configuration constants (compress.py lines 6-16).                       *)
(***************************************************************************)
SRC_DIR == <<"images">>

OUT_DIR == <<"images_optimized">>

THUMB_DIR == OUT_DIR \o <<"thumbs">>

MAX_WIDTH_HI == 1600

THUMB_WIDTH == 400

JPEG_QUALITY == 85

WEBP_QUALITY == 80

THUMB_QUALITY == 70

SUPPORTED == {".jpg", ".jpeg", ".png"}

(***************************************************************************)
(* Bounds of the model.                                                    *)
(***************************************************************************)
MaxH == 80

MaxFiles == 2

(***************************************************************************)
(* IEEE-754 binary64 arithmetic, as far as resize_by_width uses it         *)
(* (Python floats are binary64; "/" and "*" round to nearest, ties to      *)
(* even; int() truncates).  Integers here stay below 2^31, so a            *)
(* significand is kept in limbs of LimbBits bits, most significant first.  *)
(* The operands are below 2^13, as the image sizes of the model are.       *)
(* A double is <<m1, ..., mk, z>> and stands for                           *)
(*   (m1 * Base^(k-1) + ... + mk) * 2^-(3 * LimbBits + z).                 *)
(* The stages are functions, so that each is evaluated once per call.      *)
(***************************************************************************)
LimbBits == 18

Precision == 53

RECURSIVE Pow2(_)
Pow2(n) == IF n = 0 THEN 1 ELSE 2 * Pow2(n - 1)

Base == Pow2(LimbBits)

\* Number of bits of n (0 for n = 0).
RECURSIVE BitLen(_)
BitLen(n) == IF n = 0 THEN 0 ELSE 1 + BitLen(n \div 2)

\* Number of zero bits of t / w between the binary point and its first 1.
RECURSIVE LeadingZeros(_, _)
LeadingZeros(rem, w) ==
  IF 2 * rem < w THEN 1 + LeadingZeros(2 * rem, w) ELSE 0

\* Round to nearest, ties to even: guard is the first dropped bit, sticky
\* tells whether anything below it is non-zero, lsb is the last kept bit.
RoundsUp(guard, sticky, lsb) == guard = 1 /\ (sticky \/ lsb = 1)

\* One limb of long division: <<rem, w>> to <<quotient limb, new rem>>.
DivLimb[a \in Int \X Int] == <<(a[1] * Base) \div a[2], (a[1] * Base) % a[2]>>

\* <<t, w>> to <<q1, q2, q3, r, z>>: the first 54 bits of t / w from its
\* leading 1 on, the remainder left, and the number of leading zeros.
DivDigits[a \in Int \X Int] ==
  LET z  == LeadingZeros(a[1], a[2])
      d1 == DivLimb[<<a[1] * Pow2(z), a[2]>>]
      d2 == DivLimb[<<d1[2], a[2]>>]
      d3 == DivLimb[<<d2[2], a[2]>>]
  IN  <<d1[1], d2[1], d3[1], d3[2], z>>

\* <<q1, q2, q3, r, z>> rounded to 53 bits (the 54th becomes 0).
DivRound[q \in Int \X Int \X Int \X Int \X Int] ==
  LET up == RoundsUp(q[3] % 2, q[4] # 0, (q[3] \div 2) % 2)
      s3 == q[3] - (q[3] % 2) + (IF up THEN 2 ELSE 0)
      s2 == q[2] + (s3 \div Base)
      s1 == q[1] + (s2 \div Base)
  IN  IF s1 >= Base
      THEN <<Base \div 2, 0, 0, q[5] - 1>>
      ELSE <<s1, s2 % Base, s3 % Base, q[5]>>

\* target_w / float(w) for 0 < t < w (compress.py line 48).
FloatDiv(t, w) == DivRound[DivDigits[<<t, w>>]]

\* <<h, m1, m2, m3, z>> to the exact product <<d0, d1, d2, d3, z>>.
MulLimbs[a \in Int \X Int \X Int \X Int \X Int] ==
  LET v3 == a[1] * a[4]
      v2 == a[1] * a[3] + (v3 \div Base)
      v1 == a[1] * a[2] + (v2 \div Base)
  IN  <<v1 \div Base, v1 % Base, v2 % Base, v3 % Base, a[5]>>

\* Number of low bits of <<d0, d1, d2, d3, z>> beyond 53 significant ones.
DropBits[d \in Int \X Int \X Int \X Int \X Int] ==
  (IF d[1] > 0 THEN 3 * LimbBits + BitLen(d[1])
               ELSE 2 * LimbBits + BitLen(d[2])) - Precision

\* <<d0, d1, d2, d3, z, unit>> rounded to a multiple of unit = 2^drop.
MulRound[d \in Int \X Int \X Int \X Int \X Int \X Int] ==
  LET up == RoundsUp((d[4] \div (d[6] \div 2)) % 2,
                     d[4] % (d[6] \div 2) # 0,
                     (d[4] \div d[6]) % 2)
      e3 == d[4] - (d[4] % d[6]) + (IF up THEN d[6] ELSE 0)
      e2 == d[3] + (e3 \div Base)
      e1 == d[2] + (e2 \div Base)
  IN  <<d[1] + (e1 \div Base), e1 % Base, e2 % Base, e3 % Base, d[5]>>

MulRounded[d \in Int \X Int \X Int \X Int \X Int] ==
  MulRound[d \o <<Pow2(DropBits[d])>>]

\* h * ratio in binary64 (compress.py line 49): the exact product rounded
\* to 53 significant bits.
FloatMul(h, x) == MulRounded[MulLimbs[<<h>> \o x]]

\* int(x) for a double 0 <= x < 2^31 in four limbs: truncation toward zero.
FloatToInt(x) ==
  IF x[5] >= 0 THEN x[1] \div Pow2(x[5])
  ELSE x[1] * Pow2(-x[5]) + (x[2] \div Pow2(LimbBits + x[5]))

\* int(h * (t / float(w))) as one evaluation (compress.py lines 48-49).
ScaledHeight[a \in Int \X Int \X Int] ==
  FloatToInt(FloatMul(a[1], FloatDiv(a[2], a[3])))

\* Variant of resize_by_width without the "w <= target_w" early return: it
\* scales every image to the target width, narrower ones included.
resize_by_width_upscaling(size, target_w) ==
  <<target_w, (size[2] * target_w) \div size[1]>>

(***************************************************************************)
(* resize_by_width (compress.py lines 44-49) on sizes <<w, h>>: the size   *)
(* of the image it returns, or asks Image.resize for.                      *)
(***************************************************************************)
resize_by_width(size, target_w) ==
  LET w == size[1]
      h == size[2]
  IN  IF w <= target_w THEN size
      ELSE <<target_w, ScaledHeight[<<h, target_w, w>>]>>

(***************************************************************************)
(* Paths.  A path is [dir, stem, ext]: the directory components, the file  *)
(* name without its suffix, and the suffix (pathlib's stem and suffix).    *)
(***************************************************************************)
MkPath(dir, stem, ext) == [dir |-> dir, stem |-> stem, ext |-> ext]

\* Variant of lower that leaves the suffix as it is (line 53 without
\* .lower()).
lower_as_is(ext) == ext

\* str.lower() on the suffixes that occur (compress.py line 53).
lower(ext) ==
  CASE ext = ".JPG"  -> ".jpg"
    [] ext = ".JPEG" -> ".jpeg"
    [] ext = ".PNG"  -> ".png"
    [] ext = ".GIF"  -> ".gif"
    [] OTHER         -> ext

\* Path.relative_to (compress.py line 61); every walked path is under base.
relative_to(p, base) ==
  [p EXCEPT !.dir = SubSeq(p.dir, Len(base) + 1, Len(p.dir))]

\* Path.with_suffix (compress.py lines 62-64).
with_suffix(p, suffix) == [p EXCEPT !.ext = suffix]

\* base / rel
Join(base, rel) == [rel EXCEPT !.dir = base \o rel.dir]

out_hi(src) == Join(OUT_DIR, with_suffix(relative_to(src, SRC_DIR), ".jpg"))

out_webp(src) == Join(OUT_DIR, with_suffix(relative_to(src, SRC_DIR), ".webp"))

out_thumb(src) == Join(THUMB_DIR, with_suffix(relative_to(src, SRC_DIR), ".jpg"))

\* The directories mkdir(parents=True, exist_ok=True) leaves in place.
MkdirParents(dir) == {SubSeq(dir, 1, k) : k \in 1..Len(dir)}

(***************************************************************************)
(* Images.  An image is [size, mode, meta]: <<width, height>>, the Pillow  *)
(* mode, and whether the object still carries the source's metadata.       *)
(***************************************************************************)
NoImg == [size |-> <<0, 0>>, mode |-> "none", meta |-> FALSE]

\* Image.convert
convert(img, mode) == [img EXCEPT !.mode = mode]

\* Variant of strip_exif without the mode conversion of lines 24-25.
strip_exif_keeping_mode(img) ==
  [size |-> img.size, mode |-> img.mode, meta |-> FALSE]

\* strip_exif (compress.py lines 22-29)
strip_exif(img) ==
  LET rgb == IF img.mode \notin {"RGB", "RGBA"} THEN convert(img, "RGB") ELSE img
  IN  [size |-> rgb.size, mode |-> rgb.mode, meta |-> FALSE]

\* Normalisation step of process_one (compress.py lines 72-77)
Normalize(strip, img) ==
  IF strip THEN strip_exif(img)
  ELSE IF img.mode \notin {"RGB", "RGBA"} THEN convert(img, "RGB") ELSE img

\* Image.resize raises ValueError unless both sides are positive.
ResizeAccepts(size) == size[1] >= 1 /\ size[2] >= 1

\* Pillow's JPEG encoder raises OSError for a mode with an alpha channel.
JpegAccepts(img) == img.mode # "RGBA"

(***************************************************************************)
(* The files that may lie under SRC_DIR.  A file is its path, st_size      *)
(* (bytes; -1 when stat() raises, as for a dangling symlink), and what     *)
(* Image.open decodes from it: size, mode and whether the picture has      *)
(* transparency.                                                           *)
(***************************************************************************)
MkFile(dir, stem, ext, bytes, size, mode, alpha) ==
  [path |-> MkPath(SRC_DIR \o dir, stem, ext), bytes |-> bytes,
   size |-> size, mode |-> mode, alpha |-> alpha]

NoFile == MkFile(<< >>, "", "", 0, <<0, 0>>, "none", FALSE)

Universe ==
  { MkFile(<<"a">>, "cat", ".png", 1, <<1200, 800>>, "RGB", FALSE),
    MkFile(<<"b">>, "wide", ".jpg", 1, <<3000, 1000>>, "CMYK", FALSE),
    MkFile(<<"thumbs", "a">>, "cat", ".JPG", 1, <<300, 200>>, "L", FALSE),
    MkFile(<<"b">>, "pano", ".jpeg", 1, <<1601, 900>>, "RGB", FALSE),
    MkFile(<< >>, "link", ".jpg", -1, <<0, 0>>, "none", FALSE),
    MkFile(<<"a">>, "cat", ".jpeg", 1, <<770, 77>>, "LA", TRUE),
    MkFile(<<"thumbs">>, "icon", ".png", 1, <<401, 300>>, "P", TRUE),
    MkFile(<<"b">>, "logo", ".PNG", 1, <<500, 500>>, "RGBA", TRUE),
    MkFile(<< >>, "strip", ".png", 1, <<4000, 1>>, "RGB", FALSE),
    MkFile(<< >>, "empty", ".JPEG", 0, <<0, 0>>, "none", FALSE),
    MkFile(<< >>, "notes", ".gif", 1, <<10, 10>>, "P", FALSE),
    MkFile(<< >>, "README", "", 0, <<0, 0>>, "none", FALSE) }

\* Image.open + load (compress.py lines 69-70)
Decode(f) == [size |-> f.size, mode |-> f.mode, meta |-> TRUE]

VARIABLES
  MAKE_WEBP,   \* compress.py line 13
  STRIP_EXIF,  \* compress.py line 14
  files,       \* the files under SRC_DIR
  mainPc,      \* position of main(): "start", "walk", "done", "aborted"
  pending,     \* files os.walk has not yielded yet
  walkDir,     \* directory of the file os.walk yielded last
  src,         \* argument of the running process_one, NoFile when none runs
  pc,          \* position of process_one
  img,         \* process_one's locals img, hi, thumb
  hi,
  thumb,
  dirs,        \* directories that exist under the output root
  disk,        \* output files: path -> what was encoded into it
  notices,     \* console lines, in order
  written,     \* per source: the save calls that completed, in order
  calls,       \* per source: number of process_one invocations
  rsIn,        \* SpecResize: the size given to resize_by_width
  rsTarget,    \* SpecResize: target_w
  rsOut,       \* SpecResize: the size returned
  rsPc

vars == <<MAKE_WEBP, STRIP_EXIF, files, mainPc, pending, walkDir, src, pc, img,
          hi, thumb, dirs, disk, notices, written, calls,
          rsIn, rsTarget, rsOut, rsPc>>

rsVars == <<rsIn, rsTarget, rsOut, rsPc>>

pipeVars == <<MAKE_WEBP, STRIP_EXIF, files, mainPc, pending, walkDir, src, pc,
              img, hi, thumb, dirs, disk, notices, written, calls>>

locals == <<img, hi, thumb>>

config == <<MAKE_WEBP, STRIP_EXIF, files>>

Notice(kind, f) == [kind |-> kind, src |-> f.path]

InitPipe(fs) ==
  /\ files = fs
  /\ mainPc = "start"
  /\ pending = fs
  /\ walkDir = SRC_DIR
  /\ src = NoFile
  /\ pc = "idle"
  /\ img = NoImg
  /\ hi = NoImg
  /\ thumb = NoImg
  /\ dirs = {}
  /\ disk = << >>
  /\ notices = << >>
  /\ written = [f \in fs |-> << >>]
  /\ calls = [f \in fs |-> 0]

InitRs(size) ==
  /\ rsIn = size
  /\ rsTarget = 0
  /\ rsOut = <<0, 0>>
  /\ rsPc = "in"

Init ==
  /\ MAKE_WEBP \in BOOLEAN
  /\ STRIP_EXIF \in BOOLEAN
  /\ \E fs \in SUBSET Universe : Cardinality(fs) <= MaxFiles /\ InitPipe(fs)
  /\ InitRs(<<1, 1>>)

(***************************************************************************)
(* main (compress.py lines 96-101)                                         *)
(***************************************************************************)
\* ensure_dirs (lines 18-20, called at line 97)
EnsureDirs ==
  /\ mainPc = "start"
  /\ mainPc' = "walk"
  /\ dirs' = dirs \cup MkdirParents(OUT_DIR) \cup MkdirParents(THUMB_DIR)
  /\ UNCHANGED <<config, pending, walkDir, src, pc, locals, disk, notices,
                 written, calls, rsVars>>

\* mkdir raising in ensure_dirs: nothing catches it, main ends.
EnsureDirsRaises ==
  /\ mainPc = "start"
  /\ mainPc' = "aborted"
  /\ UNCHANGED <<config, pending, walkDir, src, pc, locals, dirs, disk,
                 notices, written, calls, rsVars>>

RECURSIVE CommonLen(_, _)
CommonLen(d, e) ==
  IF d = << >> \/ e = << >> \/ Head(d) # Head(e) THEN 0
  ELSE 1 + CommonLen(Tail(d), Tail(e))

IsStrictPrefix(d, e) == Len(d) < Len(e) /\ SubSeq(e, 1, Len(d)) = d

\* os.walk is top-down and depth-first: a directory's files come before
\* those of its subdirectories, and a subtree is finished before its
\* siblings; the order inside a directory is the file system's.
WalkMayYield(f) ==
  /\ f \in pending
  /\ \A g \in pending :
       /\ ~IsStrictPrefix(g.path.dir, f.path.dir)
       /\ CommonLen(g.path.dir, walkDir) <= CommonLen(f.path.dir, walkDir)

\* lines 98-101: the next file of the walk is handed to process_one
WalkNext ==
  /\ mainPc = "walk"
  /\ pc = "idle"
  /\ \E f \in files :
       /\ WalkMayYield(f)
       /\ pending' = pending \ {f}
       /\ walkDir' = f.path.dir
       /\ src' = f
       /\ calls' = [calls EXCEPT ![f] = @ + 1]
  /\ pc' = "check"
  /\ UNCHANGED <<config, mainPc, locals, dirs, disk, notices, written, rsVars>>

\* the walk is exhausted, main returns
Finish ==
  /\ mainPc = "walk"
  /\ pc = "idle"
  /\ pending = {}
  /\ mainPc' = "done"
  /\ UNCHANGED <<config, pending, walkDir, src, pc, locals, dirs, disk,
                 notices, written, calls, rsVars>>

(***************************************************************************)
(* process_one (compress.py lines 51-94), one action per statement group.  *)
(***************************************************************************)
Return ==
  /\ pc' = "idle"
  /\ src' = NoFile
  /\ img' = NoImg
  /\ hi' = NoImg
  /\ thumb' = NoImg

\* lines 53-54: unsupported suffix, silent return
SkipUnsupported ==
  /\ pc = "check"
  /\ lower(src.path.ext) \notin SUPPORTED
  /\ Return
  /\ UNCHANGED <<config, mainPc, pending, walkDir, dirs, disk, notices,
                 written, calls, rsVars>>

\* lines 57-59: empty file, warning and return
SkipEmpty ==
  /\ pc = "check"
  /\ lower(src.path.ext) \in SUPPORTED
  /\ src.bytes = 0
  /\ notices' = Append(notices, Notice("warn", src))
  /\ Return
  /\ UNCHANGED <<config, mainPc, pending, walkDir, dirs, disk, written, calls,
                 rsVars>>

\* lines 53-57 pass
Accept ==
  /\ pc = "check"
  /\ lower(src.path.ext) \in SUPPORTED
  /\ src.bytes > 0
  /\ pc' = "mkdir"
  /\ UNCHANGED <<config, mainPc, pending, walkDir, src, locals, dirs, disk,
                 notices, written, calls, rsVars>>

\* lines 61-67
MakeParents ==
  /\ pc = "mkdir"
  /\ dirs' = dirs \cup MkdirParents(out_hi(src.path).dir)
                  \cup MkdirParents(out_thumb(src.path).dir)
  /\ pc' = "open"
  /\ UNCHANGED <<config, mainPc, pending, walkDir, src, locals, disk, notices,
                 written, calls, rsVars>>

\* lines 69-70
Open ==
  /\ pc = "open"
  /\ img' = Decode(src)
  /\ pc' = "norm"
  /\ UNCHANGED <<config, mainPc, pending, walkDir, src, hi, thumb, dirs, disk,
                 notices, written, calls, rsVars>>

\* lines 72-77
NormalizeStep ==
  /\ pc = "norm"
  /\ img' = Normalize(STRIP_EXIF, img)
  /\ pc' = "hi"
  /\ UNCHANGED <<config, mainPc, pending, walkDir, src, hi, thumb, dirs, disk,
                 notices, written, calls, rsVars>>

\* line 80
ResizeHi ==
  /\ pc = "hi"
  /\ ResizeAccepts(resize_by_width(img.size, MAX_WIDTH_HI))
  /\ hi' = [img EXCEPT !.size = resize_by_width(img.size, MAX_WIDTH_HI)]
  /\ pc' = "savehi"
  /\ UNCHANGED <<config, mainPc, pending, walkDir, src, img, thumb, dirs, disk,
                 notices, written, calls, rsVars>>

\* What a save call leaves at path (save_jpeg lines 31-39, save_webp 41-42).
Encoded(image, format, quality, kind) ==
  [src |-> src.path, kind |-> kind, format |-> format, quality |-> quality,
   size |-> image.size, meta |-> image.meta]

Save(path, image, format, quality, kind) ==
  /\ disk' = (path :> Encoded(image, format, quality, kind)) @@ disk
  /\ written' = [written EXCEPT ![src] =
                   Append(@, [kind |-> kind, path |-> path, size |-> image.size])]

\* line 81
SaveHi ==
  /\ pc = "savehi"
  /\ JpegAccepts(hi)
  /\ Save(out_hi(src.path), hi, "JPEG", JPEG_QUALITY, "hi")
  /\ pc' = "thumb"
  /\ UNCHANGED <<config, mainPc, pending, walkDir, src, locals, dirs, notices,
                 calls, rsVars>>

\* line 84
ResizeThumb ==
  /\ pc = "thumb"
  /\ ResizeAccepts(resize_by_width(img.size, THUMB_WIDTH))
  /\ thumb' = [img EXCEPT !.size = resize_by_width(img.size, THUMB_WIDTH)]
  /\ pc' = "savethumb"
  /\ UNCHANGED <<config, mainPc, pending, walkDir, src, img, hi, dirs, disk,
                 notices, written, calls, rsVars>>

\* lines 85 and 88
SaveThumb ==
  /\ pc = "savethumb"
  /\ JpegAccepts(thumb)
  /\ Save(out_thumb(src.path), thumb, "JPEG", THUMB_QUALITY, "thumb")
  /\ pc' = IF MAKE_WEBP THEN "webp" ELSE "print"
  /\ UNCHANGED <<config, mainPc, pending, walkDir, src, locals, dirs, notices,
                 calls, rsVars>>

\* Variant of SaveWebp that encodes the thumbnail instead of hi.
SaveWebp_from_thumb ==
  /\ pc = "webp"
  /\ Save(out_webp(src.path), thumb, "WEBP", WEBP_QUALITY, "webp")
  /\ pc' = "print"
  /\ UNCHANGED <<config, mainPc, pending, walkDir, src, locals, dirs, notices,
                 calls, rsVars>>

\* line 89
SaveWebp ==
  /\ pc = "webp"
  /\ Save(out_webp(src.path), hi, "WEBP", WEBP_QUALITY, "webp")
  /\ pc' = "print"
  /\ UNCHANGED <<config, mainPc, pending, walkDir, src, locals, dirs, notices,
                 calls, rsVars>>

\* line 91
PrintSuccess ==
  /\ pc = "print"
  /\ notices' = Append(notices, Notice("ok", src))
  /\ Return
  /\ UNCHANGED <<config, mainPc, pending, walkDir, dirs, disk, written, calls,
                 rsVars>>

\* The statements of the try block that call into the file system or into
\* Pillow; each may raise (stat, at "check", is reached only past line 53
\* and raises for a file that cannot be stat'ed).
RaisePoints == {"check", "mkdir", "open", "norm", "hi", "savehi", "thumb",
                "savethumb", "webp"}

\* Variant of Raise without the except clause: the exception leaves
\* process_one and ends main.
Raise_uncaught ==
  /\ pc \in RaisePoints
  /\ pc = "check" => lower(src.path.ext) \in SUPPORTED /\ src.bytes < 0
  /\ mainPc' = "aborted"
  /\ Return
  /\ UNCHANGED <<config, pending, walkDir, dirs, disk, notices, written, calls,
                 rsVars>>

\* Variant of Raise whose handler deletes what the failed call had written.
Raise_cleaning_up ==
  /\ pc \in RaisePoints
  /\ pc = "check" => lower(src.path.ext) \in SUPPORTED /\ src.bytes < 0
  /\ notices' = Append(notices, Notice("fail", src))
  /\ disk' = [p \in {q \in DOMAIN disk : disk[q].src # src.path} |-> disk[p]]
  /\ written' = [written EXCEPT ![src] = << >>]
  /\ Return
  /\ UNCHANGED <<config, mainPc, pending, walkDir, dirs, calls, rsVars>>

\* lines 93-94: any exception of the try block ends in the failure notice
Raise ==
  /\ pc \in RaisePoints
  /\ pc = "check" => lower(src.path.ext) \in SUPPORTED /\ src.bytes < 0
  /\ notices' = Append(notices, Notice("fail", src))
  /\ Return
  /\ UNCHANGED <<config, mainPc, pending, walkDir, dirs, disk, written, calls,
                 rsVars>>

Next ==
  \/ EnsureDirs
  \/ EnsureDirsRaises
  \/ WalkNext
  \/ Finish
  \/ SkipUnsupported
  \/ SkipEmpty
  \/ Accept
  \/ MakeParents
  \/ Open
  \/ NormalizeStep
  \/ ResizeHi
  \/ SaveHi
  \/ ResizeThumb
  \/ SaveThumb
  \/ SaveWebp
  \/ PrintSuccess
  \/ Raise

Spec == Init /\ [][Next]_vars

\* main is sequential code: whatever step is enabled is eventually taken.
\* Whether a call raises is not a matter of scheduling.
FairSpec == Spec /\ WF_vars(Next)

(***************************************************************************)
(* SpecResize: resize_by_width on its own, sizes drawn from bounded sets.  *)
(***************************************************************************)
MaxTarget == 3

Widths == {1, 2, 3, 399, 400, 401, 464, 770, 800, 1200, 1599, 1600, 1601,
           1856, 2450, 3000, 4000, 4096}

Heights == (1..MaxH) \cup {145, 266, 267, 800, 1000}

Targets == {THUMB_WIDTH, MAX_WIDTH_HI} \cup (1..MaxTarget)

InitResize ==
  /\ MAKE_WEBP = TRUE
  /\ STRIP_EXIF = TRUE
  /\ InitPipe({})
  /\ \E w \in Widths, h \in Heights : InitRs(<<w, h>>)

ApplyResize ==
  /\ rsPc = "in"
  /\ \E t \in Targets :
       /\ rsTarget' = t
       /\ rsOut' = resize_by_width(rsIn, t)
  /\ rsPc' = "out"
  /\ UNCHANGED <<rsIn, pipeVars>>

NextResize == ApplyResize

SpecResize == InitResize /\ [][NextResize]_vars

(***************************************************************************)
(* Vocabulary of the properties.                                           *)
(***************************************************************************)
Min(a, b) == IF a <= b THEN a ELSE b

Abs(n) == IF n < 0 THEN -n ELSE n

Count(kind, f) ==
  Cardinality({i \in 1..Len(notices) : notices[i] = Notice(kind, f)})

\* the accepted extensions, in the letter cases that occur
Supported(f) ==
  f.path.ext \in {".jpg", ".jpeg", ".png", ".JPG", ".JPEG", ".PNG"}

Kinds == <<"hi", "thumb", "webp">>

Accepted(f) == Supported(f) /\ f.bytes > 0

\* process_one(f) has been called and has returned
Processed(f) == f \in files /\ f \notin pending /\ src # f

WrittenKinds(f) == [i \in 1..Len(written[f]) |-> written[f][i].kind]

IsPrefix(s, t) == Len(s) <= Len(t) /\ SubSeq(t, 1, Len(s)) = s

RelDir(f) == SubSeq(f.path.dir, Len(SRC_DIR) + 1, Len(f.path.dir))

\* the three output paths of the layout, written out from the relative path
LayoutHi(f) == MkPath(<<"images_optimized">> \o RelDir(f), f.path.stem, ".jpg")

LayoutThumb(f) ==
  MkPath(<<"images_optimized", "thumbs">> \o RelDir(f), f.path.stem, ".jpg")

LayoutWebp(f) == MkPath(<<"images_optimized">> \o RelDir(f), f.path.stem, ".webp")

Normalized == pc \in {"hi", "savehi", "thumb", "savethumb", "webp", "print"}

\* C1: every hi-res output has width min(w, 1600) and every thumbnail
\* output has width min(w, 400), w being the source's width: never above
\* the cap, never above the source's width.
C1_OutputWidths ==
  \A f \in files : \A i \in 1..Len(written[f]) :
    LET e == written[f][i]
    IN  /\ e.kind = "hi" => e.size[1] = Min(f.size[1], 1600)
        /\ e.kind = "thumb" => e.size[1] = Min(f.size[1], 400)
        /\ e.size[1] <= f.size[1]
        /\ disk[e.path].size[1] <= 1600

C1_Witness ==
  \E f, g \in files :
    /\ f.size[1] > 1600 /\ Len(written[f]) >= 2
    /\ g.size[1] < 400 /\ Len(written[g]) >= 2

\* C2: a downscale of (w, h) to target t yields the height round(h*t/w),
\* an integer nearest to h*t/w (at most half a pixel away); 1200x800 gives
\* a 400x267 thumbnail, 3000x1000 gives 1600x533 and 400x133.
C2_HeightIsRounded ==
  (rsPc = "out" /\ rsIn[1] > rsTarget) =>
    /\ 2 * Abs(rsOut[2] * rsIn[1] - rsIn[2] * rsTarget) <= rsIn[1]
    /\ (rsIn = <<1200, 800>> /\ rsTarget = 400) => rsOut = <<400, 267>>
    /\ (rsIn = <<3000, 1000>> /\ rsTarget = 1600) => rsOut = <<1600, 533>>
    /\ (rsIn = <<3000, 1000>> /\ rsTarget = 400) => rsOut = <<400, 133>>

\* C3: two distinct sources write the same output path, whatever the
\* artifact kinds, only if they have the same relative path up to the
\* extension.
C3_NoCollision ==
  \A f, g \in files :
    (f # g /\ \E i \in 1..Len(written[f]), j \in 1..Len(written[g]) :
                 written[f][i].path = written[g][j].path)
      => (f.path.dir = g.path.dir /\ f.path.stem = g.path.stem)

\* C4: per-file failures are contained.  process_one is invoked at most
\* once per file and exactly once by the time main is done; a file whose
\* processing raised has exactly one failure notice and no success notice;
\* an accepted file whose processing did not raise has its full output set
\* and one success notice; main never aborts once the walk has begun, and
\* the walk always reaches its end.
FullOutputSet(f) ==
  WrittenKinds(f) = (IF MAKE_WEBP THEN <<"hi", "thumb", "webp">>
                                  ELSE <<"hi", "thumb">>)

C4_Contained ==
  /\ \A f \in files :
       /\ calls[f] = (IF f \in pending THEN 0 ELSE 1)
       /\ Count("fail", f) <= 1
       /\ Count("fail", f) = 1 => Count("ok", f) = 0
       /\ (Processed(f) /\ Accepted(f) /\ Count("fail", f) = 0)
            => (FullOutputSet(f) /\ Count("ok", f) = 1)
       /\ (Processed(f) /\ Accepted(f) /\ ~FullOutputSet(f))
            => Count("fail", f) = 1
  /\ mainPc = "aborted" => \A f \in files : calls[f] = 0
  /\ mainPc = "done" => \A f \in files : calls[f] = 1 /\ Processed(f)

C4_FailuresContained ==
  /\ []C4_Contained
  /\ (mainPc = "walk") ~> (mainPc = "done")

C4_Witness ==
  /\ mainPc = "done"
  /\ \E f, g \in files :
       /\ Count("fail", f) = 1
       /\ Count("ok", g) = 1 /\ FullOutputSet(g)
       /\ \E i, j \in 1..Len(notices) :
            i < j /\ notices[i] = Notice("fail", f) /\ notices[j] = Notice("ok", g)

\* C5: once a success notice is out for a source, the parent directories
\* exist and exactly <OUT_DIR>/rel.jpg, <OUT_DIR>/thumbs/rel.jpg and, iff
\* MAKE_WEBP, <OUT_DIR>/rel.webp have been written, each once, the webp
\* with the hi-res image's size; there is one success notice per source,
\* and a source whose processing ran through without exception has it.
C5_SuccessEffects ==
  \A f \in files :
    /\ Count("ok", f) <= 1
    /\ (Processed(f) /\ Accepted(f) /\ Count("fail", f) = 0) => Count("ok", f) = 1
    /\ Count("ok", f) = 1 =>
         /\ Len(written[f]) = (IF MAKE_WEBP THEN 3 ELSE 2)
         /\ written[f][1].kind = "hi" /\ written[f][1].path = LayoutHi(f)
         /\ written[f][2].kind = "thumb" /\ written[f][2].path = LayoutThumb(f)
         /\ MAKE_WEBP =>
              /\ written[f][3].kind = "webp"
              /\ written[f][3].path = LayoutWebp(f)
              /\ written[f][3].size = written[f][1].size
         /\ \A i \in 1..Len(written[f]) :
              /\ written[f][i].path \in DOMAIN disk
              /\ written[f][i].path.dir \in dirs
         /\ LayoutWebp(f) \in DOMAIN disk => MAKE_WEBP

C5_Witness ==
  \E f \in files :
    /\ Count("ok", f) = 1
    /\ MAKE_WEBP
    /\ written[f][3].size # written[f][2].size

\* C6: process_one on a file with an unsupported extension changes neither
\* the output files nor the directories nor the notices; on a zero-byte
\* file with a supported extension (in any letter case) it changes neither
\* files nor directories and emits exactly the warning notice.
C6_SkipStep ==
  pc = "check" =>
    /\ ~Supported(src) =>
         /\ pc' = "idle"
         /\ disk' = disk /\ dirs' = dirs /\ notices' = notices
         /\ written' = written
    /\ (Supported(src) /\ src.bytes = 0) =>
         /\ pc' = "idle"
         /\ disk' = disk /\ dirs' = dirs /\ written' = written
         /\ notices' = Append(notices, Notice("warn", src))

C6_SkipsLeaveNoTrace == [][C6_SkipStep]_vars

C6_Witness ==
  \E f, g \in files :
    /\ Processed(f) /\ ~Supported(f)
    /\ Processed(g) /\ g.bytes = 0 /\ g.path.ext = ".JPEG"
    /\ Count("warn", g) = 1

\* C7: both resizes keep the aspect ratio within one pixel: for w > t the
\* new height h' has |h' - h*t/w| < 1, and for w <= t the size is unchanged.
C7_AspectWithinOnePixel ==
  rsPc = "out" =>
    IF rsIn[1] > rsTarget
    THEN Abs(rsOut[2] * rsIn[1] - rsIn[2] * rsTarget) < rsIn[1]
    ELSE rsOut = rsIn

\* C8 as stated: past normalisation the image is RGB or RGBA, RGBA exactly
\* when the source has transparency, and the other STRIP_EXIF setting gives
\* the same mode and size.
C8_AlphaIffTransparency ==
  Normalized =>
    /\ img.mode \in {"RGB", "RGBA"}
    /\ img.mode = "RGBA" <=> src.alpha
    /\ Normalize(~STRIP_EXIF, Decode(src)).mode = img.mode
    /\ Normalize(~STRIP_EXIF, Decode(src)).size = img.size

\* C8, amended: past normalisation the image is RGB or RGBA, RGBA exactly
\* when the decoded source is in mode RGBA (every other mode, with or
\* without transparency, becomes RGB), and the other STRIP_EXIF setting
\* gives the same mode and size.
C8_AlphaIffRgbaSource ==
  Normalized =>
    /\ img.mode \in {"RGB", "RGBA"}
    /\ img.mode = "RGBA" <=> src.mode = "RGBA"
    /\ Normalize(~STRIP_EXIF, Decode(src)).mode = img.mode
    /\ Normalize(~STRIP_EXIF, Decode(src)).size = img.size

C8_Witness ==
  /\ Normalized
  /\ src.alpha
  /\ src.mode # "RGBA"
  /\ img.mode = "RGB"

\* C9: the outputs written for a source are always a prefix of hi-res,
\* thumbnail, webp; no source has both a success and a failure notice; and
\* no step, a failure included, removes an output or forgets a write.
C9_PrefixOrder ==
  \A f \in files :
    /\ IsPrefix(WrittenKinds(f), Kinds)
    /\ ~(Count("ok", f) > 0 /\ Count("fail", f) > 0)
    /\ \A i \in 1..Len(written[f]) : written[f][i].path \in DOMAIN disk

C9_NothingRemoved ==
  /\ DOMAIN disk \subseteq DOMAIN disk'
  /\ \A f \in files : IsPrefix(written[f], written'[f])

C9_OrderedAndKept == []C9_PrefixOrder /\ [][C9_NothingRemoved]_vars

C9_Witness ==
  \E f \in files :
    /\ Count("fail", f) = 1
    /\ Processed(f)
    /\ WrittenKinds(f) = <<"hi", "thumb">>

\* C10: every size resize_by_width produces has positive width and height,
\* for every source size and target, very wide short sources included.
C10_PositiveDimensions ==
  rsPc = "out" => (rsOut[1] >= 1 /\ rsOut[2] >= 1)

====
